---- MODULE Spec2Model ----
(***************************************************************************)
(* Model of generate_comparison_charts.py: the BenchmarkAnalyzer pipeline  *)
(* (load_data, calculate_statistics, the three chart renderers,            *)
(* create_summary_table, create_html_index) driven by generate_report and  *)
(* main.                                                                   *)
(*                                                                         *)
(* Floating-point values are modelled as exact rationals extended with     *)
(* NaN and the two infinities; rounding is round-half-to-even on the       *)
(* decimal value, as numpy's round and Python's format do.                 *)
(***************************************************************************)
EXTENDS Integers, Sequences, FiniteSets, TLC

\* ------------------------------------------------------------------------
\* Bounds of the model
\* ------------------------------------------------------------------------

\* total number of data rows of the two CSV files together
MaxRows == 2

\* number of times the script is run on the same inputs and output directory
MaxRuns == 2

\* ------------------------------------------------------------------------
\* float64 values: [k, n, d] is n/d (d > 0, lowest terms) when k = "num"
\* ------------------------------------------------------------------------

Abs(i) == IF i < 0 THEN -i ELSE i

RECURSIVE GCD(_, _)
GCD(a, b) == IF b = 0 THEN a ELSE GCD(b, a % b)

Num(n, d) ==
    LET g == GCD(Abs(n), d)
    IN  [k |-> "num", n |-> n \div g, d |-> d \div g]

NaN  == [k |-> "nan", n |-> 0, d |-> 1]
PInf == [k |-> "inf", n |-> 1, d |-> 1]
NInf == [k |-> "inf", n |-> -1, d |-> 1]
Zero == Num(0, 1)

IsNum(x) == x.k = "num"
IsNaN(x) == x.k = "nan"
IsInf(x) == x.k = "inf"
Sign(i) == IF i < 0 THEN -1 ELSE IF i > 0 THEN 1 ELSE 0

FNeg(x) == [x EXCEPT !.n = -x.n]

FAdd(a, b) ==
    IF IsNaN(a) \/ IsNaN(b) THEN NaN
    ELSE IF IsInf(a) /\ IsInf(b) THEN (IF a.n = b.n THEN a ELSE NaN)
    ELSE IF IsInf(a) THEN a
    ELSE IF IsInf(b) THEN b
    ELSE LET g == GCD(a.d, b.d)
         IN  Num(a.n * (b.d \div g) + b.n * (a.d \div g), (a.d \div g) * b.d)

FSub(a, b) == FAdd(a, FNeg(b))

FMul(a, b) ==
    IF IsNaN(a) \/ IsNaN(b) THEN NaN
    ELSE IF IsInf(a) \/ IsInf(b)
         THEN (IF a.n = 0 \/ b.n = 0 THEN NaN
               ELSE IF Sign(a.n) = Sign(b.n) THEN PInf ELSE NInf)
    ELSE LET g == GCD(Abs(a.n), b.d)
             h == GCD(Abs(b.n), a.d)
         IN  Num((a.n \div g) * (b.n \div h), (a.d \div h) * (b.d \div g))

\* IEEE division as numpy performs it on float64 data: x/0 is an infinity
\* (NaN for 0/0), never an exception
FDiv(a, b) ==
    IF IsNaN(a) \/ IsNaN(b) THEN NaN
    ELSE IF IsInf(a) THEN (IF IsInf(b) THEN NaN
                           ELSE IF b.n < 0 THEN FNeg(a) ELSE a)
    ELSE IF IsInf(b) THEN Zero
    ELSE IF b.n = 0
         THEN (IF a.n = 0 THEN NaN ELSE IF a.n > 0 THEN PInf ELSE NInf)
    ELSE Num(Sign(b.n) * a.n * b.d, a.d * Abs(b.n))

FLess(a, b) == a.n * b.d < b.n * a.d

\* round to a multiple of 1/p, ties to the even neighbour
FRound(x, p) ==
    IF ~IsNum(x) THEN x
    ELSE LET q  == x.n * p
             fl == q \div x.d
             r  == q % x.d
             up == IF 2 * r > x.d THEN 1
                   ELSE IF 2 * r < x.d THEN 0
                   ELSE fl % 2
         IN  Num(fl + up, p)

\* the largest r in lo..hi with r * r <= n (lo * lo <= n)
RECURSIVE Bisect(_, _, _)
Bisect(lo, hi, n) ==
    IF lo = hi THEN lo
    ELSE LET mid == (lo + hi + 1) \div 2
         IN  IF mid * mid <= n THEN Bisect(mid, hi, n)
             ELSE Bisect(lo, mid - 1, n)

ISqrt(n) == Bisect(0, IF n < 46340 THEN n ELSE 46340, n)

IsSquare(n) == ISqrt(n) * ISqrt(n) = n

\* the square root: exact when it is rational, otherwise kept as a surd
FSqrt(x) ==
    IF ~IsNum(x) THEN x
    ELSE IF x.n < 0 THEN NaN
    ELSE IF IsSquare(x.n) /\ IsSquare(x.d) THEN Num(ISqrt(x.n), ISqrt(x.d))
    ELSE [k |-> "surd", n |-> x.n, d |-> x.d]

RECURSIVE FSum(_)
FSum(s) == IF s = <<>> THEN Zero ELSE FAdd(Head(s), FSum(Tail(s)))

RECURSIVE FMinSeq(_)
FMinSeq(s) ==
    IF Len(s) = 1 THEN s[1]
    ELSE LET m == FMinSeq(Tail(s)) IN IF FLess(m, s[1]) THEN m ELSE s[1]

RECURSIVE FMaxSeq(_)
FMaxSeq(s) ==
    IF Len(s) = 1 THEN s[1]
    ELSE LET m == FMaxSeq(Tail(s)) IN IF FLess(s[1], m) THEN m ELSE s[1]

\* pandas mean of a column of numbers (NaN for an empty column)
FMean(s) == FDiv(FSum(s), Num(Len(s), 1))

\* pandas std: the sample standard deviation (ddof = 1), NaN for one value
FStd(s) ==
    LET m  == FMean(s)
        sq == [i \in 1..Len(s) |-> FMul(FSub(s[i], m), FSub(s[i], m))]
    IN  FSqrt(FDiv(FSum(sq), Num(Len(s) - 1, 1)))

\* Series.fillna(0)
FillNa0(x) == IF IsNaN(x) THEN Zero ELSE x

\* ------------------------------------------------------------------------
\* CSV cells and rows
\* ------------------------------------------------------------------------

\* a cell of a CSV file: a decimal literal n/d, some non-numeric text, or
\* an empty cell
Lit(n, d)  == [k |-> "lit", n |-> n, d |-> d]
TextCell   == [k |-> "text", n |-> 0, d |-> 1]
EmptyCell  == [k |-> "empty", n |-> 0, d |-> 1]

\* pd.read_csv followed by pd.to_numeric(errors='coerce')
ToNumeric(c) == IF c.k = "lit" THEN Num(c.n, c.d) ELSE NaN

\* pandas notna of a column that is not coerced (an object column)
NotNa(c) == c.k # "empty"

\* workloads, in their natural (alphabetical) sort order
SuiteOrder == <<"select_only", "simple_update">>
Suites == {SuiteOrder[i] : i \in 1..Len(SuiteOrder)}
SuiteRank(s) == CHOOSE i \in 1..Len(SuiteOrder) : SuiteOrder[i] = s

\* engines, in their natural (alphabetical) sort order
DbOrder == <<"citus", "postgresql">>
DbRank(s) == CHOOSE i \in 1..Len(DbOrder) : DbOrder[i] = s

\* measurements a benchmark run can report: (TPS, Latency_Avg_ms)
Measurements ==
    { <<Lit(25, 100), Lit(4, 1000)>>, <<Lit(1, 1), Lit(5, 100)>> }

ClientCells == {Lit(1, 1), Lit(2, 1)}

\* rows of a file: every well-formed row, and rows with one defective cell
WellFormedRows ==
    { [Suite |-> s, Clients |-> c, Run |-> Lit(1, 1),
       TPS |-> m[1], Latency_Avg_ms |-> m[2]] :
      s \in Suites, c \in ClientCells, m \in Measurements }

BaseRow ==
    [Suite |-> "select_only", Clients |-> Lit(1, 1), Run |-> Lit(1, 1),
     TPS |-> Lit(1, 1), Latency_Avg_ms |-> Lit(5, 100)]

DefectiveRows ==
    { [BaseRow EXCEPT !.TPS = TextCell],
      [BaseRow EXCEPT !.Latency_Avg_ms = EmptyCell],
      [BaseRow EXCEPT !.Clients = TextCell],
      [BaseRow EXCEPT !.Run = EmptyCell] }

RowChoices == WellFormedRows \cup DefectiveRows

RECURSIVE SeqsUpTo(_, _)
SeqsUpTo(S, n) ==
    IF n = 0 THEN {<<>>}
    ELSE LET shorter == SeqsUpTo(S, n - 1)
         IN  shorter \cup
             { Append(q, x) : q \in {t \in shorter : Len(t) = n - 1}, x \in S }

\* the Database_Type column holds the engine that produced the file
Tag(db, rows) ==
    [i \in 1..Len(rows) |->
        [Database_Type |-> db, Suite |-> rows[i].Suite,
         Clients |-> rows[i].Clients, Run |-> rows[i].Run,
         TPS |-> rows[i].TPS, Latency_Avg_ms |-> rows[i].Latency_Avg_ms]]

\* ------------------------------------------------------------------------
\* State
\* ------------------------------------------------------------------------

VARIABLES
    pg_file,     \* the file at self.postgresql_csv: [exists, rows]
    citus_file,  \* the file at self.citus_csv: [exists, rows]
    pc,          \* the statement main / generate_report is about to run
    parsed,      \* the input files pd.read_csv has parsed
    data,        \* the Combined Dataset returned by load_data
    stats,       \* the Aggregated Statistics
    outdir,      \* the content of the artifacts in self.output_dir
    pivots,      \* (pivot_tps, pivot_latency) of create_summary_table
    divisions,   \* relative-difference divisions done by the summary stage
    written,     \* the artifacts written to output_dir, in order
    started,     \* the stages entered, in order
    exc,         \* the exception in flight
    console,     \* the error messages printed
    exit_code,   \* the value main returned
    run,         \* the number of the current run of the script
    prev         \* what the previous run left: [outdir, pivots, exit_code]

vars == <<pg_file, citus_file, pc, parsed, data, stats, outdir, pivots,
          divisions, written, started, exc, console, exit_code, run, prev>>

\* the artifacts of a run, by file name
Artifacts ==
    {"tps_comparison.png", "latency_comparison.png",
     "throughput_vs_latency.png", "performance_summary.txt", "index.html"}

NoExc == [type |-> "none", arg |-> "none"]
Raised(t, a) == [type |-> t, arg |-> a]

NoExit == -1

Init ==
    /\ \E pe \in BOOLEAN, ce \in BOOLEAN :
       \E pr \in SeqsUpTo(RowChoices, MaxRows),
          cr \in SeqsUpTo(RowChoices, MaxRows) :
          /\ Len(pr) + Len(cr) <= MaxRows
          /\ pe \/ pr = <<>>
          /\ ce \/ cr = <<>>
          /\ pg_file = [exists |-> pe, rows |-> Tag("postgresql", pr)]
          /\ citus_file = [exists |-> ce, rows |-> Tag("citus", cr)]
    /\ pc = "main"
    /\ parsed = {}
    /\ data = <<>>
    /\ stats = <<>>
    /\ outdir = [a \in Artifacts |-> <<>>]
    /\ pivots = <<>>
    /\ divisions = 0
    /\ written = <<>>
    /\ started = <<>>
    /\ exc = NoExc
    /\ console = <<>>
    /\ exit_code = NoExit
    /\ run = 1
    /\ prev = [outdir |-> [a \in Artifacts |-> <<>>], pivots |-> <<>>,
               exit_code |-> NoExit]

\* a file opened for writing and then appended to
WriteFile_Append(dir, file, content) ==
    [dir EXCEPT ![file] = Append(@, content)]

\* savefig / open(file, 'w'): the file holds the new content only
WriteFile(dir, file, content) == [dir EXCEPT ![file] = <<content>>]

\* ------------------------------------------------------------------------
\* load_data
\* ------------------------------------------------------------------------

\* load_data without the second existence check
MissingInput_PgOnly(pf, cf) ==
    IF ~pf.exists THEN "postgresql_csv" ELSE "none"

\* the path load_data reports as missing ("none" when both files exist)
MissingInput(pf, cf) ==
    IF ~pf.exists THEN "postgresql_csv"
    ELSE IF ~cf.exists THEN "citus_csv"
    ELSE "none"

Coerce(r) ==
    [r EXCEPT !.TPS = ToNumeric(@),
              !.Latency_Avg_ms = ToNumeric(@),
              !.Clients = ToNumeric(@)]

\* dropna(subset=['TPS'])
Kept_TpsOnly(r) == ~IsNaN(r.TPS)

\* dropna(subset=['TPS', 'Latency_Avg_ms'])
Kept(r) == ~IsNaN(r.TPS) /\ ~IsNaN(r.Latency_Avg_ms)

\* pd.concat, the three pd.to_numeric conversions, dropna
Combine(pg_rows, citus_rows) ==
    LET both == pg_rows \o citus_rows
        conv == [i \in 1..Len(both) |-> Coerce(both[i])]
    IN  SelectSeq(conv, Kept)

load_data ==
    /\ pc = "load_data"
    /\ started' = Append(started, "load_data")
    /\ IF MissingInput(pg_file, citus_file) # "none"
       THEN /\ exc' = Raised("FileNotFoundError",
                             MissingInput(pg_file, citus_file))
            /\ pc' = "generate_report_except"
            /\ UNCHANGED <<parsed, data>>
       ELSE /\ parsed' = {"postgresql_csv", "citus_csv"}
            /\ data' = Combine(pg_file.rows, citus_file.rows)
            /\ pc' = "calculate_statistics"
            /\ UNCHANGED exc
    /\ UNCHANGED <<run, prev>>
    /\ UNCHANGED <<pg_file, citus_file, stats, outdir, pivots, divisions,
                   written, console, exit_code>>

\* ------------------------------------------------------------------------
\* calculate_statistics
\* ------------------------------------------------------------------------

GroupKey(r) == <<r.Database_Type, r.Suite, r.Clients>>

\* groupby drops the rows whose key has a NaN component
GroupKeys(d) ==
    { GroupKey(d[i]) : i \in {j \in 1..Len(d) : ~IsNaN(d[j].Clients)} }

KeyLess(a, b) ==
    \/ DbRank(a[1]) < DbRank(b[1])
    \/ /\ a[1] = b[1]
       /\ \/ SuiteRank(a[2]) < SuiteRank(b[2])
          \/ a[2] = b[2] /\ FLess(a[3], b[3])

RECURSIVE SortKeys(_)
SortKeys(S) ==
    IF S = {} THEN <<>>
    ELSE LET m == CHOOSE x \in S : \A y \in S \ {x} : KeyLess(x, y)
         IN  <<m>> \o SortKeys(S \ {m})

GroupRows(d, key) ==
    LET InGroup(r) == GroupKey(r) = key
    IN  SelectSeq(d, InGroup)

\* 'Run': 'count' counts the rows of the group whose Run is not null
RunCount(rows) ==
    LET HasRun(r) == NotNa(r.Run)
    IN  Len(SelectSeq(rows, HasRun))

\* the std columns without fillna(0)
StdColumn_NoFill(col) == FStd(col)

\* the std columns after fillna(0)
StdColumn(col) == FillNa0(FStd(col))

Aggregate(d, key) ==
    LET rows == GroupRows(d, key)
        tps  == [i \in 1..Len(rows) |-> rows[i].TPS]
        lat  == [i \in 1..Len(rows) |-> rows[i].Latency_Avg_ms]
    IN  [Database_Type |-> key[1], Suite |-> key[2], Clients |-> key[3],
         TPS_mean |-> FMean(tps), TPS_std |-> StdColumn(tps),
         TPS_min |-> FMinSeq(tps), TPS_max |-> FMaxSeq(tps),
         Latency_mean |-> FMean(lat), Latency_std |-> StdColumn(lat),
         Latency_min |-> FMinSeq(lat), Latency_max |-> FMaxSeq(lat),
         Run_count |-> RunCount(rows)]

Statistics(d) ==
    LET keys == SortKeys(GroupKeys(d))
    IN  [i \in 1..Len(keys) |-> Aggregate(d, keys[i])]

calculate_statistics ==
    /\ pc = "calculate_statistics"
    /\ started' = Append(started, "calculate_statistics")
    /\ stats' = Statistics(data)
    /\ pc' = "create_tps_comparison"
    /\ UNCHANGED <<run, prev>>
    /\ UNCHANGED <<pg_file, citus_file, parsed, data, outdir, pivots,
                   divisions, written, exc, console, exit_code>>

\* ------------------------------------------------------------------------
\* The chart renderers
\* ------------------------------------------------------------------------

\* sorted(stats['Suite'].unique())
SuitesOf(st) ==
    LET present == { st[i].Suite : i \in 1..Len(st) }
        InStats(s) == s \in present
    IN  SelectSeq(SuiteOrder, InStats)

\* suite_data[suite_data['Database_Type'] == db]
EngineRows(st, suite, db) ==
    LET Match(r) == r.Suite = suite /\ r.Database_Type = db
    IN  SelectSeq(st, Match)

\* the mean / std column of a statistics row for a metric
MeanOf(r, metric) == IF metric = "TPS" THEN r.TPS_mean ELSE r.Latency_mean
StdOf(r, metric) == IF metric = "TPS" THEN r.TPS_std ELSE r.Latency_std

\* np.broadcast_arrays of n x positions with m heights (Axes.bar): equal
\* lengths, or one of the two has length 1 and is stretched to the other
Broadcastable(n, m) == n = m \/ n = 1 \/ m = 1

BroadcastLen(n, m) == IF n = 1 THEN m ELSE n

\* the bars Axes.bar draws for the positions 0..n-1 and the given rows;
\* each bar: its position, height, whisker and the client count of the
\* statistics row its height was taken from
Bars(n, rows, metric) ==
    LET m == Len(rows)
    IN  [i \in 1..BroadcastLen(n, m) |->
            LET row == rows[IF m = 1 THEN 1 ELSE i]
            IN  [x |-> IF n = 1 THEN 0 ELSE i - 1,
                 height |-> MeanOf(row, metric), yerr |-> StdOf(row, metric),
                 clients |-> row.Clients]]

\* plt.subplots(1, 0) raises; so does Axes.bar when the Citus heights do
\* not broadcast against the PostgreSQL positions
BarChartRaises(st) ==
    \/ SuitesOf(st) = <<>>
    \/ \E i \in 1..Len(SuitesOf(st)) :
          ~Broadcastable(Len(EngineRows(st, SuitesOf(st)[i], "postgresql")),
                         Len(EngineRows(st, SuitesOf(st)[i], "citus")))

BarSubplot(st, suite, metric) ==
    LET pg_data    == EngineRows(st, suite, "postgresql")
        citus_data == EngineRows(st, suite, "citus")
        n          == Len(pg_data)
    IN  [suite |-> suite,
         bars1 |-> Bars(n, pg_data, metric),
         bars2 |-> Bars(n, citus_data, metric),
         ticks |-> [i \in 1..n |->
                       [x |-> i - 1, label |-> pg_data[i].Clients]]]

BarChart(st, metric) ==
    LET suites == SuitesOf(st)
    IN  [i \in 1..Len(suites) |-> BarSubplot(st, suites[i], metric)]

\* a renderer whose failure is recorded but does not stop the pipeline
Render_ContinueOnError(stage, file, raises, fig, next) ==
    /\ pc = stage
    /\ started' = Append(started, stage)
    /\ pc' = next
    /\ IF raises
       THEN /\ exc' = Raised("ValueError", stage)
            /\ UNCHANGED <<outdir, written>>
       ELSE \E io_ok \in BOOLEAN :
               IF io_ok
               THEN /\ outdir' = WriteFile(outdir, file, fig)
                    /\ written' = Append(written, file)
                    /\ UNCHANGED exc
               ELSE /\ exc' = Raised("OSError", file)
                    /\ UNCHANGED <<outdir, written>>
    /\ UNCHANGED <<run, prev>>
    /\ UNCHANGED <<pg_file, citus_file, parsed, data, stats, pivots,
                   divisions, console, exit_code>>

\* a renderer: build the figure (or raise), save it (or fail to)
Render(stage, file, raises, fig, next) ==
    /\ pc = stage
    /\ started' = Append(started, stage)
    /\ IF raises
       THEN /\ exc' = Raised("ValueError", stage)
            /\ pc' = "generate_report_except"
            /\ UNCHANGED <<outdir, written>>
       ELSE \E io_ok \in BOOLEAN :
               IF io_ok
               THEN /\ outdir' = WriteFile(outdir, file, fig)
                    /\ written' = Append(written, file)
                    /\ pc' = next
                    /\ UNCHANGED exc
               ELSE /\ exc' = Raised("OSError", file)
                    /\ pc' = "generate_report_except"
                    /\ UNCHANGED <<outdir, written>>
    /\ UNCHANGED <<run, prev>>
    /\ UNCHANGED <<pg_file, citus_file, parsed, data, stats, pivots,
                   divisions, console, exit_code>>

create_tps_comparison ==
    Render("create_tps_comparison", "tps_comparison.png",
           BarChartRaises(stats), BarChart(stats, "TPS"),
           "create_latency_comparison")

create_latency_comparison ==
    Render("create_latency_comparison", "latency_comparison.png",
           BarChartRaises(stats), BarChart(stats, "Latency"),
           "create_throughput_vs_latency")

\* the points of one engine in a scatter subplot, each annotated with
\* int(Clients)
Points(st, suite, db) ==
    LET db_data == EngineRows(st, suite, db)
    IN  [i \in 1..Len(db_data) |->
            [x |-> db_data[i].Latency_mean, y |-> db_data[i].TPS_mean,
             label |-> db_data[i].Clients]]

ScatterChart(st) ==
    LET suites == SuitesOf(st)
    IN  [i \in 1..Len(suites) |->
            [suite |-> suites[i],
             postgresql |-> Points(st, suites[i], "postgresql"),
             citus |-> Points(st, suites[i], "citus")]]

\* plt.subplots(1, 0) raises
ScatterRaises(st) == SuitesOf(st) = <<>>

create_throughput_vs_latency ==
    Render("create_throughput_vs_latency", "throughput_vs_latency.png",
           ScatterRaises(stats), ScatterChart(stats),
           "create_summary_table")

\* ------------------------------------------------------------------------
\* create_summary_table
\* ------------------------------------------------------------------------

DiffColumn == "Citus_vs_PG_%"

IndexLess(a, b) ==
    \/ SuiteRank(a[1]) < SuiteRank(b[1])
    \/ a[1] = b[1] /\ FLess(a[2], b[2])

RECURSIVE SortIndex(_)
SortIndex(S) ==
    IF S = {} THEN <<>>
    ELSE LET m == CHOOSE x \in S : \A y \in S \ {x} : IndexLess(x, y)
         IN  <<m>> \o SortIndex(S \ {m})

\* stats.pivot_table(index=['Suite', 'Clients'], columns='Database_Type',
\* values=..., aggfunc='mean').round(digits), p = 10^digits: a cell is NaN
\* where the engine has no statistics row for the row key
PivotTable(st, metric, p) ==
    LET present == { st[i].Database_Type : i \in 1..Len(st) }
        IsCol(db) == db \in present
        index == SortIndex({ <<st[i].Suite, st[i].Clients>> : i \in 1..Len(st) })
        CellOf(key, db) ==
            LET Match(r) == /\ r.Suite = key[1] /\ r.Clients = key[2]
                            /\ r.Database_Type = db
                hit == SelectSeq(st, Match)
                vals == [i \in 1..Len(hit) |-> MeanOf(hit[i], metric)]
            IN  FRound(FMean(vals), p)
    IN  [columns |-> SelectSeq(DbOrder, IsCol),
         rows |-> [i \in 1..Len(index) |->
                     [Suite |-> index[i][1], Clients |-> index[i][2],
                      cells |-> [db \in present |-> CellOf(index[i], db)]]]]

Columns(pv) == { pv.columns[i] : i \in 1..Len(pv.columns) }

\* a per-row presence check instead of the column-presence check
BothEngineColumns_PerRow(pv) ==
    \A i \in 1..Len(pv.rows) :
        /\ {"postgresql", "citus"} \subseteq DOMAIN pv.rows[i].cells
        /\ ~IsNaN(pv.rows[i].cells["postgresql"])
        /\ ~IsNaN(pv.rows[i].cells["citus"])

\* 'postgresql' in pivot_tps.columns and 'citus' in pivot_tps.columns
BothEngineColumns(pv) ==
    "postgresql" \in Columns(pv) /\ "citus" \in Columns(pv)

\* the percentage difference with absent cells taken as 0
PercentDiff_NaNAsZero(citus, postgresql) ==
    FMul(FDiv(FSub(FillNa0(citus), FillNa0(postgresql)), FillNa0(postgresql)),
         Num(100, 1))

\* (citus - postgresql) / postgresql * 100
PercentDiff(citus, postgresql) ==
    FMul(FDiv(FSub(citus, postgresql), postgresql), Num(100, 1))

\* pivot['Citus_vs_PG_%'] = (... * 100).round(1)
AddDiffColumn(pv) ==
    [columns |-> Append(pv.columns, DiffColumn),
     rows |-> [i \in 1..Len(pv.rows) |->
                 [pv.rows[i] EXCEPT !.cells =
                     [c \in DOMAIN @ \cup {DiffColumn} |->
                         IF c = DiffColumn
                         THEN FRound(PercentDiff(@["citus"], @["postgresql"]), 10)
                         ELSE @[c]]]]]

\* pivot[col].mean(): the mean of the cells that are not NaN
ColumnMean(pv, col) ==
    LET all == [i \in 1..Len(pv.rows) |-> pv.rows[i].cells[col]]
        Present(x) == ~IsNaN(x)
    IN  FMean(SelectSeq(all, Present))

\* the SUMMARY ANALYSIS block of the text report
Analysis(pivot_tps, pivot_latency) ==
    LET avg_tps_pg    == ColumnMean(pivot_tps, "postgresql")
        avg_tps_citus == ColumnMean(pivot_tps, "citus")
        avg_lat_pg    == ColumnMean(pivot_latency, "postgresql")
        avg_lat_citus == ColumnMean(pivot_latency, "citus")
    IN  [avg_tps_pg |-> FRound(avg_tps_pg, 10),
         avg_tps_citus |-> FRound(avg_tps_citus, 10),
         tps_diff |-> FRound(PercentDiff(avg_tps_citus, avg_tps_pg), 10),
         avg_lat_pg |-> FRound(avg_lat_pg, 100),
         avg_lat_citus |-> FRound(avg_lat_citus, 100),
         lat_diff |-> FRound(PercentDiff(avg_lat_citus, avg_lat_pg), 10),
         higher_tps |-> IF FLess(avg_tps_pg, avg_tps_citus)
                        THEN "Citus" ELSE "PostgreSQL",
         lower_latency |-> IF FLess(avg_lat_citus, avg_lat_pg)
                           THEN "Citus" ELSE "PostgreSQL"]

\* the two pivots as create_summary_table returns them
SummaryPivots(st) ==
    LET pivot_tps     == PivotTable(st, "TPS", 10)
        pivot_latency == PivotTable(st, "Latency", 100)
    IN  IF BothEngineColumns(pivot_tps)
        THEN <<AddDiffColumn(pivot_tps), AddDiffColumn(pivot_latency)>>
        ELSE <<pivot_tps, pivot_latency>>

\* performance_summary.txt without its timestamp line
SummaryText(pv) ==
    [pivot_tps |-> pv[1], pivot_latency |-> pv[2],
     analysis |-> IF BothEngineColumns(pv[1])
                  THEN <<Analysis(pv[1], pv[2])>> ELSE <<>>]

\* the relative-difference divisions of lines 339-340: one per pivot row
PivotDivisions(pv) ==
    IF BothEngineColumns(pv[1]) THEN Len(pv[1].rows) + Len(pv[2].rows) ELSE 0

\* the relative-difference divisions of lines 373 and 377
AnalysisDivisions(pv) == IF BothEngineColumns(pv[1]) THEN 2 ELSE 0

create_summary_table ==
    /\ pc = "create_summary_table"
    /\ started' = Append(started, "create_summary_table")
    /\ LET pv == SummaryPivots(stats)
       IN  \E io_ok \in BOOLEAN :
              IF io_ok
              THEN /\ outdir' = WriteFile(outdir, "performance_summary.txt",
                                        SummaryText(pv))
                   /\ written' = Append(written, "performance_summary.txt")
                   /\ divisions' = PivotDivisions(pv) + AnalysisDivisions(pv)
                   /\ pivots' = pv
                   /\ pc' = "create_html_index"
                   /\ UNCHANGED exc
              ELSE /\ exc' = Raised("OSError", "performance_summary.txt")
                   /\ divisions' = PivotDivisions(pv)
                   /\ pc' = "generate_report_except"
                   /\ UNCHANGED <<outdir, written, pivots>>
    /\ UNCHANGED <<run, prev>>
    /\ UNCHANGED <<pg_file, citus_file, parsed, data, stats, console,
                   exit_code>>

\* ------------------------------------------------------------------------
\* create_html_index, generate_report, main
\* ------------------------------------------------------------------------

\* index.html without its timestamp: the artifacts it references
HtmlPage ==
    [img |-> <<"tps_comparison.png", "latency_comparison.png",
               "throughput_vs_latency.png">>,
     href |-> <<"performance_summary.txt", "tps_comparison.png",
                "latency_comparison.png", "throughput_vs_latency.png">>]

create_html_index ==
    /\ pc = "create_html_index"
    /\ started' = Append(started, "create_html_index")
    /\ \E io_ok \in BOOLEAN :
          IF io_ok
          THEN /\ outdir' = WriteFile(outdir, "index.html", HtmlPage)
               /\ written' = Append(written, "index.html")
               /\ pc' = "main_return"
               /\ UNCHANGED exc
          ELSE /\ exc' = Raised("OSError", "index.html")
               /\ pc' = "generate_report_except"
               /\ UNCHANGED <<outdir, written>>
    /\ UNCHANGED <<run, prev>>
    /\ UNCHANGED <<pg_file, citus_file, parsed, data, stats, pivots,
                   divisions, console, exit_code>>

\* the handler of generate_report: print the error, re-raise
generate_report_except ==
    /\ pc = "generate_report_except"
    /\ console' = Append(console, [by |-> "generate_report", error |-> exc])
    /\ pc' = "main_except"
    /\ UNCHANGED <<run, prev>>
    /\ UNCHANGED <<pg_file, citus_file, parsed, data, stats, outdir, pivots,
                   divisions, written, started, exc, exit_code>>

\* main up to the call of generate_report: BenchmarkAnalyzer(...) creates
\* the output directory, which can fail
main ==
    /\ pc = "main"
    /\ \E io_ok \in BOOLEAN :
          IF io_ok
          THEN pc' = "load_data" /\ UNCHANGED exc
          ELSE exc' = Raised("OSError", "output_dir") /\ pc' = "main_except"
    /\ UNCHANGED <<run, prev>>
    /\ UNCHANGED <<pg_file, citus_file, parsed, data, stats, outdir, pivots,
                   divisions, written, started, console, exit_code>>

ExitFailure == 1
ExitSuccess == 0

\* the handler of main: print the error, return 1
main_except ==
    /\ pc = "main_except"
    /\ console' = Append(console, [by |-> "main", error |-> exc])
    /\ exit_code' = ExitFailure
    /\ pc' = "exit"
    /\ UNCHANGED <<run, prev>>
    /\ UNCHANGED <<pg_file, citus_file, parsed, data, stats, outdir, pivots,
                   divisions, written, started, exc>>

\* generate_report returned: main returns 0
main_return ==
    /\ pc = "main_return"
    /\ exit_code' = ExitSuccess
    /\ pc' = "exit"
    /\ UNCHANGED <<run, prev>>
    /\ UNCHANGED <<pg_file, citus_file, parsed, data, stats, outdir, pivots,
                   divisions, written, started, exc, console>>

\* the script is run again, as a new process, on the same input files and
\* the same output directory
run_again ==
    /\ pc = "exit"
    /\ run < MaxRuns
    /\ run' = run + 1
    /\ prev' = [outdir |-> outdir, pivots |-> pivots, exit_code |-> exit_code]
    /\ pc' = "main"
    /\ parsed' = {}
    /\ data' = <<>>
    /\ stats' = <<>>
    /\ pivots' = <<>>
    /\ divisions' = 0
    /\ written' = <<>>
    /\ started' = <<>>
    /\ exc' = NoExc
    /\ console' = <<>>
    /\ exit_code' = NoExit
    /\ UNCHANGED <<pg_file, citus_file, outdir>>

Next ==
    \/ main
    \/ load_data
    \/ calculate_statistics
    \/ create_tps_comparison
    \/ create_latency_comparison
    \/ create_throughput_vs_latency
    \/ create_summary_table
    \/ create_html_index
    \/ generate_report_except
    \/ main_except
    \/ main_return
    \/ run_again

Spec == Init /\ [][Next]_vars

\* ------------------------------------------------------------------------
\* Vocabulary of the properties
\* ------------------------------------------------------------------------

BothExist == pg_file.exists /\ citus_file.exists

\* a row of an input file whose throughput and latency are both numeric
Usable(r) == r.TPS.k = "lit" /\ r.Latency_Avg_ms.k = "lit"
UsableRows(f) == SelectSeq(f.rows, Usable)

Entered(stage) == \E i \in 1..Len(started) : started[i] = stage
Wrote(file) == \E i \in 1..Len(written) : written[i] = file

\* the number of Combined Dataset rows with the given group key
RowsWithKey(db, suite, clients) ==
    Cardinality({ i \in 1..Len(data) :
                    /\ data[i].Database_Type = db
                    /\ data[i].Suite = suite
                    /\ data[i].Clients = clients })

HasEngine(db) == \E i \in 1..Len(stats) : stats[i].Database_Type = db

HasStats(db, suite, clients) ==
    \E i \in 1..Len(stats) :
        /\ stats[i].Database_Type = db
        /\ stats[i].Suite = suite
        /\ stats[i].Clients = clients

\* the aggregated mean of a group, by metric
StatMean(db, suite, clients, metric) ==
    LET r == stats[CHOOSE i \in 1..Len(stats) :
                      /\ stats[i].Database_Type = db
                      /\ stats[i].Suite = suite
                      /\ stats[i].Clients = clients]
    IN  IF metric = "TPS" THEN r.TPS_mean ELSE r.Latency_mean

\* ------------------------------------------------------------------------
\* C1
\* ------------------------------------------------------------------------

EmptyResult ==
    /\ BothExist
    /\ UsableRows(pg_file) = <<>> \/ UsableRows(citus_file) = <<>>

\* C1: when both input files exist and one or both engines have no usable
\* row, no stage of generate_report raises (an output-write failure aside),
\* and a run without a write failure ends with all five artifacts written
\* and exit code 0.
C1_EmptyResultCompletes ==
    EmptyResult =>
        /\ exc.type \in {"none", "OSError"}
        /\ (pc = "exit" /\ exc.type = "none") =>
              /\ exit_code = ExitSuccess
              /\ \A a \in Artifacts : Wrote(a)

\* ------------------------------------------------------------------------
\* C2
\* ------------------------------------------------------------------------

\* a workload of the statistics for which one engine has no row
LacksEngine(suite, db) ==
    /\ \E i \in 1..Len(stats) : stats[i].Suite = suite
    /\ EngineRows(stats, suite, db) = <<>>

BarSeriesEmpty(file) ==
    outdir[file] # <<>> =>
        \A i \in 1..Len(outdir[file][1]) :
            LET sp == outdir[file][1][i]
            IN  /\ LacksEngine(sp.suite, "postgresql") => sp.bars1 = <<>>
                /\ LacksEngine(sp.suite, "citus") => sp.bars2 = <<>>

ScatterSeriesEmpty ==
    outdir["throughput_vs_latency.png"] # <<>> =>
        \A i \in 1..Len(outdir["throughput_vs_latency.png"][1]) :
            LET sp == outdir["throughput_vs_latency.png"][1][i]
            IN  /\ LacksEngine(sp.suite, "postgresql") => sp.postgresql = <<>>
                /\ LacksEngine(sp.suite, "citus") => sp.citus = <<>>

\* C2: when a workload of the statistics has no rows for one engine, none
\* of the three renderers raises an error, and in every chart drawn that
\* engine's series is empty in the workload's subplot.
C2_MissingEngineSeriesEmpty ==
    (\E s \in Suites, db \in {"postgresql", "citus"} : LacksEngine(s, db)) =>
        /\ exc.type # "ValueError"
        /\ BarSeriesEmpty("tps_comparison.png")
        /\ BarSeriesEmpty("latency_comparison.png")
        /\ ScatterSeriesEmpty

\* ------------------------------------------------------------------------
\* C3
\* ------------------------------------------------------------------------

\* the relative-difference cells of a returned pivot are the percentage
\* difference of the aggregated means, rounded to one decimal place
DiffOfAggregatedMeans(pv, metric) ==
    \A i \in 1..Len(pv.rows) :
        LET row == pv.rows[i]
        IN  ( /\ DiffColumn \in DOMAIN row.cells
              /\ HasStats("postgresql", row.Suite, row.Clients)
              /\ HasStats("citus", row.Suite, row.Clients) ) =>
            row.cells[DiffColumn] =
                FRound(PercentDiff(
                          StatMean("citus", row.Suite, row.Clients, metric),
                          StatMean("postgresql", row.Suite, row.Clients, metric)),
                       10)

\* C3: for every row key of either pivot for which both engines have a
\* value, the relative-difference cell equals
\* (citus mean - postgresql mean) / postgresql mean * 100 rounded to one
\* decimal place, the means being TPS_mean / Latency_mean of the group.
C3_DiffFromAggregatedMeans ==
    pivots # <<>> =>
        /\ DiffOfAggregatedMeans(pivots[1], "TPS")
        /\ DiffOfAggregatedMeans(pivots[2], "Latency")

\* ------------------------------------------------------------------------
\* C4
\* ------------------------------------------------------------------------

OtherEngine(db) == IF db = "postgresql" THEN "citus" ELSE "postgresql"

\* a row key with statistics for `db` only, while the other engine has
\* statistics under other keys
OneSided(row, db) ==
    /\ HasStats(db, row.Suite, row.Clients)
    /\ ~HasStats(OtherEngine(db), row.Suite, row.Clients)
    /\ HasEngine(OtherEngine(db))

OneSidedRowsAbsent(pv) ==
    \A i \in 1..Len(pv.rows) : \A db \in {"postgresql", "citus"} :
        OneSided(pv.rows[i], db) =>
            /\ OtherEngine(db) \in DOMAIN pv.rows[i].cells
            /\ IsNaN(pv.rows[i].cells[OtherEngine(db)])
            /\ DiffColumn \in DOMAIN pv.rows[i].cells
            /\ IsNaN(pv.rows[i].cells[DiffColumn])

\* C4: for a row key that has statistics for one engine only while the
\* other engine has rows under other keys, create_summary_table raises no
\* exception (an output-write failure aside), the missing engine's pivot
\* cell is absent (NaN) and so is the relative-difference value.
C4_OneSidedRowAbsent ==
    /\ (Entered("create_summary_table") /\ ~Entered("create_html_index")) =>
           exc.type \in {"none", "OSError"}
    /\ pivots # <<>> =>
           OneSidedRowsAbsent(pivots[1]) /\ OneSidedRowsAbsent(pivots[2])

C4_Witness ==
    /\ pivots # <<>>
    /\ \E i \in 1..Len(pivots[1].rows) :
          OneSided(pivots[1].rows[i], "postgresql")

\* ------------------------------------------------------------------------
\* C5
\* ------------------------------------------------------------------------

\* C5: the relative-difference column is in both returned pivots, and the
\* analysis block is in the text report, exactly when the throughput pivot
\* has both a 'postgresql' and a 'citus' column; when an engine has no
\* aggregated row, the summary stage performs no relative-difference
\* division.
C5_DiffOnlyWithBothColumns ==
    /\ pivots # <<>> =>
          LET both == /\ "postgresql" \in Columns(pivots[1])
                      /\ "citus" \in Columns(pivots[1])
              text == outdir["performance_summary.txt"][1]
          IN  /\ both <=> (HasEngine("postgresql") /\ HasEngine("citus"))
              /\ DiffColumn \in Columns(pivots[1]) <=> both
              /\ DiffColumn \in Columns(pivots[2]) <=> both
              /\ text.analysis # <<>> <=> both
    /\ ~(HasEngine("postgresql") /\ HasEngine("citus")) => divisions = 0

C5_Witness ==
    /\ pivots # <<>>
    /\ DiffColumn \in Columns(pivots[1])
    /\ divisions > 0
    /\ \E i \in 1..Len(pivots[1].rows) :
          IsNaN(pivots[1].rows[i].cells["citus"])

\* ------------------------------------------------------------------------
\* C6
\* ------------------------------------------------------------------------

\* a Combined Dataset row is the given file row with its numeric columns
\* converted
IsRowOf(d, raw) ==
    /\ d.Database_Type = raw.Database_Type
    /\ d.Suite = raw.Suite
    /\ d.Run = raw.Run
    /\ d.TPS = Num(raw.TPS.n, raw.TPS.d)
    /\ d.Latency_Avg_ms = Num(raw.Latency_Avg_ms.n, raw.Latency_Avg_ms.d)
    /\ d.Clients = IF raw.Clients.k = "lit"
                   THEN Num(raw.Clients.n, raw.Clients.d) ELSE NaN

\* C6: the Combined Dataset returned by load_data is the usable PostgreSQL
\* rows followed by the usable Citus rows, each in file order: its length
\* is the sum of the two counts of usable rows, and every row of it has a
\* numeric throughput and a numeric latency.
C6_CombinedDataset ==
    parsed # {} =>
        LET vp == UsableRows(pg_file)
            vc == UsableRows(citus_file)
        IN  /\ Len(data) = Len(vp) + Len(vc)
            /\ \A i \in 1..Len(vp) : IsRowOf(data[i], vp[i])
            /\ \A i \in 1..Len(vc) : IsRowOf(data[Len(vp) + i], vc[i])
            /\ \A i \in 1..Len(data) :
                  IsNum(data[i].TPS) /\ IsNum(data[i].Latency_Avg_ms)

C6_Witness ==
    /\ parsed # {}
    /\ Len(data) >= 1
    /\ Len(data) < Len(pg_file.rows) + Len(citus_file.rows)

\* ------------------------------------------------------------------------
\* C7
\* ------------------------------------------------------------------------

\* C7: no aggregated row has an undefined (NaN) standard deviation, and a
\* group of exactly one row has throughput and latency standard deviation
\* exactly 0.
C7_SingleRowStdZero ==
    \A i \in 1..Len(stats) :
        /\ ~IsNaN(stats[i].TPS_std)
        /\ ~IsNaN(stats[i].Latency_std)
        /\ RowsWithKey(stats[i].Database_Type, stats[i].Suite,
                       stats[i].Clients) = 1 =>
              stats[i].TPS_std = Zero /\ stats[i].Latency_std = Zero

C7_Witness ==
    /\ Entered("calculate_statistics")
    /\ \E i \in 1..Len(stats) :
          RowsWithKey(stats[i].Database_Type, stats[i].Suite,
                      stats[i].Clients) = 1

\* ------------------------------------------------------------------------
\* C8
\* ------------------------------------------------------------------------

\* C8: every aggregated row has run count >= 1, equal to the number of
\* Combined Dataset rows with its (engine, workload, client count) key.
C8_RunCountIsRowCount ==
    \A i \in 1..Len(stats) :
        /\ stats[i].Run_count >= 1
        /\ stats[i].Run_count =
              RowsWithKey(stats[i].Database_Type, stats[i].Suite,
                          stats[i].Clients)

\* ------------------------------------------------------------------------
\* C9
\* ------------------------------------------------------------------------

MissingPaths ==
    (IF pg_file.exists THEN {} ELSE {"postgresql_csv"}) \cup
    (IF citus_file.exists THEN {} ELSE {"citus_csv"})

\* C9: when an input file does not exist, load_data raises an error naming
\* a missing path before any file is parsed; no later stage starts and no
\* artifact is written in the run.
C9_MissingInput ==
    (MissingPaths # {} /\ Entered("load_data")) =>
        /\ exc.type = "FileNotFoundError"
        /\ exc.arg \in MissingPaths
        /\ parsed = {}
        /\ started = <<"load_data">>
        /\ written = <<>>
        /\ \A a \in Artifacts : outdir[a] = <<>>

C9_Witness ==
    /\ pc = "exit"
    /\ pg_file.exists
    /\ ~citus_file.exists
    /\ exc = Raised("FileNotFoundError", "citus_csv")

\* ------------------------------------------------------------------------
\* C10
\* ------------------------------------------------------------------------

\* C10: when main returns, a failure raised in the run was caught by main,
\* exactly one error message was printed for the run and the exit code is
\* non-zero; the exit code is 0 exactly when every stage completed.
C10_SingleMessageAndExitCode ==
    pc = "exit" =>
        /\ exc # NoExc => exit_code # ExitSuccess /\ Len(console) = 1
        /\ exit_code = ExitSuccess <=>
              (exc = NoExc /\ \A a \in Artifacts : Wrote(a))

\* ------------------------------------------------------------------------
\* C11
\* ------------------------------------------------------------------------

\* C11: after a second successful run on the same inputs and output
\* directory, every artifact holds exactly what that run wrote (the earlier
\* file is overwritten, the report shows the run's own pivots), and when the
\* first run succeeded too, the text report (timestamp aside) and the pivot
\* tables are equal to the first run's.
C11_Idempotent ==
    (run >= 2 /\ pc = "exit" /\ exit_code = ExitSuccess) =>
        /\ \A a \in Artifacts : Len(outdir[a]) = 1
        /\ outdir["performance_summary.txt"][1].pivot_tps = pivots[1]
        /\ outdir["performance_summary.txt"][1].pivot_latency = pivots[2]
        /\ prev.exit_code = ExitSuccess =>
              /\ outdir["performance_summary.txt"] =
                    prev.outdir["performance_summary.txt"]
              /\ pivots = prev.pivots

C11_Witness ==
    /\ run = 2
    /\ pc = "exit"
    /\ exit_code = ExitSuccess
    /\ prev.exit_code = ExitSuccess
    /\ DiffColumn \in Columns(pivots[1])
    /\ prev.outdir["performance_summary.txt"] # <<>>

\* ------------------------------------------------------------------------
\* C12
\* ------------------------------------------------------------------------

StageOrder ==
    <<"load_data", "calculate_statistics", "create_tps_comparison",
      "create_latency_comparison", "create_throughput_vs_latency",
      "create_summary_table", "create_html_index">>

\* the stage has produced its result in this run
StageDone(stage) ==
    CASE stage = "load_data" -> parsed # {}
      [] stage = "calculate_statistics" -> Entered("calculate_statistics")
      [] stage = "create_tps_comparison" -> Wrote("tps_comparison.png")
      [] stage = "create_latency_comparison" -> Wrote("latency_comparison.png")
      [] stage = "create_throughput_vs_latency" ->
            Wrote("throughput_vs_latency.png")
      [] stage = "create_summary_table" -> Wrote("performance_summary.txt")
      [] stage = "create_html_index" -> Wrote("index.html")

\* C12: in every run the stages start in the fixed order load_data,
\* calculate_statistics, create_tps_comparison, create_latency_comparison,
\* create_throughput_vs_latency, create_summary_table, create_html_index;
\* every stage but the last one started has completed, a stage that failed
\* is the last one started, and index.html is written only after the three
\* images and the text summary were written in the same run.
C12_StageOrder ==
    /\ Len(started) <= Len(StageOrder)
    /\ started = SubSeq(StageOrder, 1, Len(started))
    /\ \A i \in 1..(Len(started) - 1) : StageDone(started[i])
    /\ (exc # NoExc /\ started # <<>>) => ~StageDone(started[Len(started)])
    /\ Wrote("index.html") =>
          written = <<"tps_comparison.png", "latency_comparison.png",
                      "throughput_vs_latency.png", "performance_summary.txt",
                      "index.html">>

C12_Witness ==
    /\ pc = "exit"
    /\ exc = Raised("OSError", "performance_summary.txt")
    /\ started = SubSeq(StageOrder, 1, 6)
    /\ written = <<"tps_comparison.png", "latency_comparison.png",
                   "throughput_vs_latency.png">>

\* ------------------------------------------------------------------------
\* C13
\* ------------------------------------------------------------------------

RECURSIVE SumRunCount(_)
SumRunCount(st) ==
    IF st = <<>> THEN 0 ELSE Head(st).Run_count + SumRunCount(Tail(st))

\* the aggregated groups a Combined Dataset row belongs to
GroupsOf(r) ==
    { j \in 1..Len(stats) :
        /\ stats[j].Database_Type = r.Database_Type
        /\ stats[j].Suite = r.Suite
        /\ stats[j].Clients = r.Clients }

\* C13: once the statistics are computed, every row of the Combined
\* Dataset belongs to exactly one aggregated group, and the run counts of
\* the groups sum to the number of rows of the Combined Dataset.
C13_NoRowLost ==
    Entered("calculate_statistics") =>
        /\ \A i \in 1..Len(data) : Cardinality(GroupsOf(data[i])) = 1
        /\ SumRunCount(stats) = Len(data)

\* ------------------------------------------------------------------------
\* C14
\* ------------------------------------------------------------------------

\* the client counts a workload has statistics for, for either engine
ClientsOfSuite(suite) ==
    { stats[i].Clients : i \in { j \in 1..Len(stats) : stats[j].Suite = suite } }

SubplotAligned(sp) ==
    LET bars == sp.bars1 \o sp.bars2
    IN  /\ \A i, j \in 1..Len(bars) :
              bars[i].x = bars[j].x => bars[i].clients = bars[j].clients
        /\ \A i \in 1..Len(bars), t \in 1..Len(sp.ticks) :
              bars[i].x = sp.ticks[t].x => bars[i].clients = sp.ticks[t].label
        /\ \A c \in ClientsOfSuite(sp.suite) :
              Cardinality({ bars[i].x :
                            i \in { j \in 1..Len(bars) : bars[j].clients = c } }) = 1

BarsAligned(file) ==
    Wrote(file) =>
        \A i \in 1..Len(outdir[file][1]) : SubplotAligned(outdir[file][1][i])

\* C14: in the throughput and the latency bar chart, the bars and the tick
\* label drawn at one x position of a subplot belong to the same client
\* count, and every client count either engine has for the workload is
\* drawn at exactly one position.
C14_BarsAlignedByClients ==
    /\ BarsAligned("tps_comparison.png")
    /\ BarsAligned("latency_comparison.png")

====
